---- MODULE Spec2Model ----
(***************************************************************************)
(* Operation-application pipeline of buildr-chat.                          *)
(*                                                                         *)
(* Tables: buildr_operations_log (ops), buildr_execution_steps (steps),    *)
(* buildr_app_spec (appSpec), buildr_app_operations (appOps),              *)
(* buildr_app_config (appConfig), buildr_app_versions (versions).          *)
(* A request is a process whose program counter sits between two storage   *)
(* calls; the storage calls of concurrent requests interleave.             *)
(***************************************************************************)
EXTENDS Integers, Sequences, FiniteSets, TLC

\* ------------------------------------------------------------------ bounds
MaxOps == 2          \* rows of buildr_operations_log ever submitted
MaxAppOps == 2       \* rows of buildr_app_operations ever submitted
MaxCalls == 5        \* run-one-step invocations a sequential caller makes
MaxSteps == 3        \* set_permissions steps of the operation a caller runs

Apps == {"a1", "a2"}
StepApps == {"a1"}             \* apps the run-loop requests are made for
Runners == {"r1", "r2"}        \* concurrent POST /api/buildr/run-step requests
Expanders == {"e1", "e2"}      \* concurrent POST /api/buildr/expand-operations requests
Workers == {"w1", "w2"}        \* concurrent operation-processor requests
NULL == "null"

\* ------------------------------------------------------- raw step payloads
\* A raw descriptor is a JSON object; an absent field is the falsy "".
Desc(type, name, slug, fields, layout) ==
  [type |-> type, name |-> name, slug |-> slug, target |-> "",
   fields |-> fields, layout |-> layout]

Field(name, type) == [name |-> name, type |-> type]

dPage == Desc("create_page", "", "orders", <<>>, "")
dModel == Desc("create_model", "Order", "", <<Field("total", "number")>>, "")
dModelAlias == Desc("create_model", "Order", "", <<Field("total", "INTEGER")>>, "")
dModelNoFields == Desc("create_model", "Item", "", <<>>, "")

\* operations arrays an intent producer may submit
RawBatches ==
  { <<dPage, dModel>>, <<dModelAlias>> }

\* operations arrays of the rows a sequential caller may find already expanded
SeqBatches == RawBatches \cup { <<dModelNoFields, dPage>> }

\* ------------------------------------------ buildr_app_operations payloads
AppOp(type, slug, layout, theme) ==
  [type |-> type, page |-> [slug |-> slug, layout |-> layout], theme |-> theme]

oAddOrders == AppOp("add_page", "orders", "", "")
oThemeDark == AppOp("update_theme", "", "", "dark")
oThemeNeon == AppOp("update_theme", "", "", "neon")

AppOpBatches == { <<oAddOrders>>, <<oThemeDark>>, <<oThemeNeon, oAddOrders>> }

VARIABLES
  ops,          \* buildr_operations_log rows
  steps,        \* buildr_execution_steps rows
  appSpec,      \* buildr_app_spec rows
  nextId,       \* next row id (rows are created in id order)
  rpc, rcur, rapp, rerr,         \* run-step request: position, selected row, app, caught error
  rread,                         \* run-step request: rows its handler has read
  epc, equeue,                   \* expand-operations request: position, fetched operations
  rets, k0,     \* responses seen by a sequential caller, pending steps it started with (-1: no such caller)
  appOps,       \* buildr_app_operations rows
  appConfig,    \* buildr_app_config rows
  versions,     \* buildr_app_versions rows
  wpc, wqueue, wver,             \* operation-processor request: position, fetched rows, versionNumber
  bpc, bapp, bqueue, bidx, berrs, \* bulk-run request: position, app, fetched operations, loop index i, stepErrors
  berror,                        \* bulk-run request: the error thrown to the operation's catch block
  executed                       \* (operation, index) of the raw descriptors a handler has been run with

vars == <<ops, steps, appSpec, nextId, rpc, rcur, rapp, rerr, rread,
          epc, equeue, rets, k0, appOps, appConfig, versions, wpc, wqueue, wver,
          bpc, bapp, bqueue, bidx, berrs, berror, executed>>

runVars == <<rpc, rcur, rapp, rerr, rread>>
expVars == <<epc, equeue>>
procVars == <<appOps, appConfig, versions, wpc, wqueue, wver>>
bulkVars == <<bpc, bapp, bqueue, bidx, berrs, berror>>

MaxRows == 2 * MaxOps + 2
NoRow == [id |-> 0, app |-> NULL, op |-> 0, idx |-> 0, type |-> "", target |-> "",
          status |-> "", err |-> ""]

\* ------------------------------------------------------------ table helpers
SetStatus(r, st) == [r EXCEPT !.status = st]
\* update({status: st}).eq("id", id)
SetStatusById(table, id, st) == { IF r.id = id THEN SetStatus(r, st) ELSE r : r \in table }
RowOf(table, id) == CHOOSE r \in table : r.id = id
HasRow(table, id) == \E r \in table : r.id = id

Or(a, b) == IF a # "" THEN a ELSE b     \* JavaScript a || b on strings

\* ------------------------------------------------------------------ strings
\* A string is spelled as a sequence of one-character strings; toLowerCase works
\* on the spelling, character by character.
Letters == <<"a", "b", "c", "d", "e", "f", "g", "h", "i", "j", "k", "l", "m",
             "n", "o", "p", "q", "r", "s", "t", "u", "v", "w", "x", "y", "z">>
Capitals == <<"A", "B", "C", "D", "E", "F", "G", "H", "I", "J", "K", "L", "M",
              "N", "O", "P", "Q", "R", "S", "T", "U", "V", "W", "X", "Y", "Z">>

LowerChar(c) ==
  IF \E i \in 1..Len(Capitals) : Capitals[i] = c
  THEN Letters[CHOOSE i \in 1..Len(Capitals) : Capitals[i] = c] ELSE c
UpperChar(c) ==
  IF \E i \in 1..Len(Letters) : Letters[i] = c
  THEN Capitals[CHOOSE i \in 1..Len(Letters) : Letters[i] = c] ELSE c

RECURSIVE Str(_)
Str(cs) == IF cs = <<>> THEN "" ELSE Head(cs) \o Str(Tail(cs))

\* every letter-casing of a word, the word with a capital initial, the word in capitals
RECURSIVE Casings(_)
Casings(word) ==
  IF word = <<>> THEN { <<>> }
  ELSE { <<c>> \o rest : c \in {Head(word), UpperChar(Head(word))},
                         rest \in Casings(Tail(word)) }
Capitalized(word) == [i \in 1..Len(word) |-> IF i = 1 THEN UpperChar(word[i]) ELSE word[i]]
AllCapitals(word) == [i \in 1..Len(word) |-> UpperChar(word[i])]
ThreeCasings(word) == {word, Capitalized(word), AllCapitals(word)}

wInteger == <<"i", "n", "t", "e", "g", "e", "r">>
wString == <<"s", "t", "r", "i", "n", "g">>
wText == <<"t", "e", "x", "t">>
wNumber == <<"n", "u", "m", "b", "e", "r">>
wBoolean == <<"b", "o", "o", "l", "e", "a", "n">>
wDate == <<"d", "a", "t", "e">>
wDatetime == <<"d", "a", "t", "e", "t", "i", "m", "e">>
wTimestamptz == <<"t", "i", "m", "e", "s", "t", "a", "m", "p", "t", "z">>
wUuid == <<"u", "u", "i", "d">>
wReference == <<"r", "e", "f", "e", "r", "e", "n", "c", "e">>
wAuthentication == <<"a", "u", "t", "h", "e", "n", "t", "i", "c", "a", "t", "i", "o", "n">>
wJsonb == <<"j", "s", "o", "n", "b">>
wArray == <<"a", "r", "r", "a", "y">>
wObject == <<"o", "b", "j", "e", "c", "t">>
wVarchar == <<"v", "a", "r", "c", "h", "a", "r">>

\* the spellings of the field types a create_model step may carry
Spellings ==
  Casings(wInteger) \cup Casings(wString) \cup Casings(wText) \cup Casings(wUuid)
    \cup Casings(wDate)
    \cup ThreeCasings(wNumber) \cup ThreeCasings(wBoolean) \cup ThreeCasings(wDatetime)
    \cup ThreeCasings(wTimestamptz) \cup ThreeCasings(wReference)
    \cup ThreeCasings(wAuthentication) \cup ThreeCasings(wJsonb)
    \cup ThreeCasings(wArray) \cup ThreeCasings(wObject) \cup ThreeCasings(wVarchar)

TypeStrings == { Str(cs) : cs \in Spellings }

\* String.prototype.toLowerCase over the spelled strings
LowerOf ==
  [t \in TypeStrings |->
     LET cs == CHOOSE s \in Spellings : Str(s) = t
     IN Str([i \in 1..Len(cs) |-> LowerChar(cs[i])])]

\* a toLowerCase that leaves every string as it is
ToLowerIdentity(t) == t

ToLower(t) == IF t \in TypeStrings THEN LowerOf[t] ELSE t

\* ------------------------------------------------------------ step handlers
\* Field-type normalisation of create_model: lower-case, then the alias table.
NormalizeType(t) ==
  LET l == ToLower(t) IN
  CASE l = "string" -> "text"
    [] l = "integer" -> "number"
    [] l = "datetime" -> "timestamptz"
    [] l = "reference" -> "uuid"
    [] l = "authentication" -> "jsonb"
    [] OTHER -> l

normalizedValidTypes ==
  {"text", "number", "boolean", "date", "timestamptz", "uuid", "jsonb", "array", "object"}

Fail(store, msg) == [success |-> FALSE, error |-> msg, store |-> store]
Ok(store) == [success |-> TRUE, error |-> "", store |-> store]

\* an existence query that never finds a row
SpecExistsNever(store, app, ctype, key) == FALSE

SpecExists(store, app, ctype, key) ==
  \E e \in store : e.app = app /\ e.ctype = ctype /\ e.key = key

handleCreateModel(appId, step, store) ==
  LET modelName == Or(step.name, step.target)
      fields == step.fields
      normalizedFields ==
        [i \in 1..Len(fields) |-> [fields[i] EXCEPT !.type = NormalizeType(fields[i].type)]]
  IN
  IF modelName = "" THEN Fail(store, "create_model step missing required field: name or target")
  ELSE IF Len(fields) = 0 THEN Fail(store, "create_model step missing required field: fields")
  ELSE IF \E i \in 1..Len(fields) : fields[i].name = ""
    THEN Fail(store, "Field missing required property: name")
  ELSE IF \E i \in 1..Len(fields) :
            fields[i].type = "" \/ NormalizeType(fields[i].type) \notin normalizedValidTypes
    THEN Fail(store, "Invalid field type")
  ELSE IF SpecExists(store, appId, "architecture", modelName)
    THEN Fail(store, "Model already exists")
  ELSE Ok(store \cup { [app |-> appId, ctype |-> "architecture", key |-> modelName,
                        value |-> [name |-> modelName, fields |-> normalizedFields]] })

handleCreatePage(appId, step, store) ==
  LET slug == Or(step.slug, step.target) IN
  IF slug = "" THEN Fail(store, "create_page step missing required field: slug or target")
  ELSE IF SpecExists(store, appId, "ui", slug) THEN Fail(store, "Page already exists")
  ELSE IF step.layout # "" /\ ~SpecExists(store, appId, "ui", step.layout)
    THEN Fail(store, "Layout does not exist")
  ELSE Ok(store \cup { [app |-> appId, ctype |-> "ui", key |-> slug,
                        value |-> [slug |-> slug, title |-> slug, layout |-> step.layout,
                                   components |-> <<>>]] })

\* ---------------------------------------------------------- set_permissions
\* An optional array: absent (undefined) or given, possibly empty.
Absent == [given |-> FALSE, list |-> <<>>]
Given(list) == [given |-> TRUE, list |-> list]

\* A permission object; an absent field is the falsy "".
Perm(resource, action, role) == [resource |-> resource, action |-> action, role |-> role]

\* step.details: absent, an object with optional array keys, or itself an array
NoDetails ==
  [given |-> FALSE, isArray |-> FALSE, items |-> <<>>,
   access_rules |-> Absent, permissions |-> Absent, rules |-> Absent]
DetailsObject(access_rules, permissions, rules) ==
  [given |-> TRUE, isArray |-> FALSE, items |-> <<>>,
   access_rules |-> access_rules, permissions |-> permissions, rules |-> rules]
DetailsArray(items) ==
  [given |-> TRUE, isArray |-> TRUE, items |-> items,
   access_rules |-> Absent, permissions |-> Absent, rules |-> Absent]

PermStep(target, permissions, details) ==
  [type |-> "set_permissions", name |-> "", slug |-> "", target |-> target,
   fields |-> <<>>, layout |-> "", permissions |-> permissions, details |-> details]

validActions == {"read", "write", "delete", "admin", "create", "update"}
validRoles == {"user", "admin", "public", "authenticated"}

\* the permissions variable after the shape resolution
resolvePermissions(step) ==
  LET resource == Or(step.target, Or(step.name, Or(step.slug, "resource")))
      details == step.details
  IN IF step.permissions.given THEN step.permissions
     ELSE IF ~details.given THEN Absent
     ELSE IF details.access_rules.given
       THEN Given([i \in 1..Len(details.access_rules.list) |->
                     Perm(resource, details.access_rules.list[i], "user")])
     ELSE IF details.permissions.given THEN details.permissions
     ELSE IF details.rules.given THEN details.rules
     ELSE IF details.isArray THEN Given(details.items)
     ELSE Absent

\* a validation loop that accepts every permission
validateNothing(permissions, i) == ""

\* the validation loop: the error of the first invalid permission, "" when none
RECURSIVE validatePermissions(_, _)
validatePermissions(permissions, i) ==
  IF i > Len(permissions) THEN ""
  ELSE LET permission == permissions[i] IN
       IF permission.resource = "" THEN "Permission missing required field: resource"
       ELSE IF permission.action = "" \/ permission.action \notin validActions
         THEN "Invalid action"
       ELSE IF permission.role # "" /\ permission.role \notin validRoles THEN "Invalid role"
       ELSE validatePermissions(permissions, i + 1)

\* existingPermissions ? config_value.rules || [] : []
existingRules(store, appId) ==
  IF SpecExists(store, appId, "permissions", "rules")
  THEN (CHOOSE e \in store :
          e.app = appId /\ e.ctype = "permissions" /\ e.key = "rules").value.rules
  ELSE <<>>

\* one turn of the merge loop: replace the first match in place, else push
mergeRule(mergedRules, newPermission) ==
  LET matches == { i \in 1..Len(mergedRules) :
                     /\ mergedRules[i].resource = newPermission.resource
                     /\ mergedRules[i].action = newPermission.action
                     /\ mergedRules[i].role = Or(newPermission.role, "user") }
  IN IF matches # {}
     THEN [mergedRules EXCEPT ![CHOOSE i \in matches : \A j \in matches : i <= j] =
             newPermission]
     ELSE Append(mergedRules, newPermission)

RECURSIVE mergeRules(_, _, _)
mergeRules(mergedRules, permissions, i) ==
  IF i > Len(permissions) THEN mergedRules
  ELSE mergeRules(mergeRule(mergedRules, permissions[i]), permissions, i + 1)

\* upsert on (app_id, config_type, config_key)
Upsert(store, row) ==
  { e \in store : ~(e.app = row.app /\ e.ctype = row.ctype /\ e.key = row.key) }
    \cup {row}

handleSetPermissions(appId, step, store) ==
  LET permissions == resolvePermissions(step) IN
  IF ~permissions.given THEN Fail(store, "set_permissions step missing required field")
  ELSE IF validatePermissions(permissions.list, 1) # ""
    THEN Fail(store, validatePermissions(permissions.list, 1))
  ELSE Ok(Upsert(store,
            [app |-> appId, ctype |-> "permissions", key |-> "rules",
             value |-> [rules |-> mergeRules(existingRules(store, appId),
                                             permissions.list, 1)]]))

\* --------------------------------------------------------- create_component
\* A create_component payload; an absent field is the falsy "".
CompStep(name, componentType, props, pageSlug, componentId) ==
  [type |-> "create_component", name |-> name, slug |-> "", target |-> "",
   fields |-> <<>>, layout |-> "", componentType |-> componentType, props |-> props,
   pageSlug |-> pageSlug, componentId |-> componentId]

\* values Date.now() may return
Clock == {"t1", "t2"}

\* the single row .eq(app_id).eq(config_type).eq(config_key).single() returns
SpecRow(store, app, ctype, key) ==
  CHOOSE e \in store : e.app = app /\ e.ctype = ctype /\ e.key = key

\* if (!pageValue.components) pageValue.components = []
componentsOf(pageValue) ==
  IF "components" \in DOMAIN pageValue THEN pageValue.components ELSE <<>>

\* pageValue after its components array is replaced by list
withComponents(pageValue, list) ==
  [f \in DOMAIN pageValue \cup {"components"} |->
     IF f = "components" THEN list ELSE pageValue[f]]

\* pageValue.components.push(instance)
push(list, instance) == Append(list, instance)

\* an insert that keeps a conflicting row next to the new one
InsertBeside(store, row) == store \cup {row}

\* upsert(upsertData, {onConflict: "app_id,config_type,config_key"})
upsertComponent(store, row) == Upsert(store, row)

handleCreateComponent(appId, step, store, now) ==
  LET componentName == Or(step.name, step.target)
      componentType == Or(step.componentType, "Component")
      componentConfig ==
        [name |-> componentName, type |-> componentType, props |-> step.props]
      upserted ==
        upsertComponent(store, [app |-> appId, ctype |-> "ui", key |-> componentName,
                                value |-> componentConfig])
  IN
  IF componentName = ""
    THEN Fail(store, "create_component step missing required field: name or target")
  ELSE IF step.pageSlug # "" /\ ~SpecExists(store, appId, "ui", step.pageSlug)
    THEN Fail(store, "Page does not exist")
  ELSE IF step.pageSlug = "" THEN Ok(upserted)
  ELSE LET pageConfig == SpecRow(upserted, appId, "ui", step.pageSlug)
           pageValue == pageConfig.value
           componentId == Or(step.componentId, componentName \o "-" \o now)
           instance == [id |-> componentId, type |-> componentType,
                        name |-> componentName, props |-> step.props]
       IN Ok({ IF e.app = appId /\ e.ctype = "ui" /\ e.key = step.pageSlug
                 THEN [e EXCEPT !.value =
                         withComponents(pageValue, push(componentsOf(pageValue), instance))]
                 ELSE e : e \in upserted })

\* lib/stepHandlers executeStep: dispatch on the step type
executeStepHandler(appId, step, store, now) ==
  CASE step.type = "create_model" -> handleCreateModel(appId, step, store)
    [] step.type = "create_page" -> handleCreatePage(appId, step, store)
    [] step.type = "create_component" -> handleCreateComponent(appId, step, store, now)
    [] step.type = "set_permissions" -> handleSetPermissions(appId, step, store)
    [] OTHER -> Fail(store, "Unknown step type")

\* a payload resolution that always takes the row's own fields
executeStepOwnFields(step, opsTable, appId, store, now) ==
  executeStepHandler(appId, [type |-> step.type, name |-> "", slug |-> step.target,
                             target |-> step.target, fields |-> <<>>, layout |-> ""],
                     store, now)

\* run-step.ts executeStep: resolve the payload of a claimed row, then run the handler
executeStep(step, opsTable, appId, store, now) ==
  IF step.op # 0 THEN
    IF ~HasRow(opsTable, step.op) THEN Fail(store, "Failed to fetch operation details")
    ELSE LET operations == RowOf(opsTable, step.op).raw IN
         IF step.idx + 1 \in 1..Len(operations)
         THEN LET fullStep == operations[step.idx + 1]
                  stepType == Or(fullStep.type, step.type)
              IN executeStepHandler(appId, [fullStep EXCEPT !.type = stepType], store, now)
         ELSE Fail(store, "Step not found in operation")
  ELSE
    LET stepData == [type |-> step.type, name |-> "", slug |-> step.target,
                     target |-> step.target, fields |-> <<>>, layout |-> ""]
    IN IF step.type = "" THEN Fail(store, "Step missing type field")
       ELSE executeStepHandler(appId, stepData, store, now)

\* ------------------------------------------------------------ initial state
\* A step row written by a legacy direct insert: no operation_id.
orphanStep ==
  [id |-> 1, app |-> "a1", op |-> 0, idx |-> 0, type |-> "create_page",
   target |-> "legacy", status |-> "pending", err |-> ""]

\* the same for another app
orphanOther ==
  [id |-> 2, app |-> "a2", op |-> 0, idx |-> 0, type |-> "create_page",
   target |-> "legacy", status |-> "pending", err |-> ""]

InitTables ==
  /\ ops = {}
  /\ appSpec = {}
  /\ appOps = {}
  /\ appConfig = {}
  /\ versions = {}
  /\ \/ steps = {} /\ nextId = 1
     \/ steps = {orphanStep} /\ nextId = 2
     \/ steps = {orphanStep, orphanOther} /\ nextId = 3

InitRequests ==
  /\ rpc = [r \in Runners |-> "idle"]
  /\ rcur = [r \in Runners |-> NoRow]
  /\ rapp = [r \in Runners |-> NULL]
  /\ rerr = [r \in Runners |-> ""]
  /\ rread = [r \in Runners |-> {}]
  /\ epc = [e \in Expanders |-> "idle"]
  /\ equeue = [e \in Expanders |-> <<>>]
  /\ wpc = [w \in Workers |-> "idle"]
  /\ wqueue = [w \in Workers |-> <<>>]
  /\ wver = [w \in Workers |-> 0]
  /\ bpc = "idle" /\ bapp = NULL /\ bqueue = <<>> /\ bidx = 0 /\ berrs = <<>>
  /\ berror = ""
  /\ executed = {}

Init ==
  /\ InitTables
  /\ InitRequests
  /\ rets = <<>>
  /\ k0 = -1

\* ------------------------------------------------- POST operations (submit)
\* The intent producer stores one pending row in buildr_operations_log.
SubmitOperation(app, batch) ==
  /\ Cardinality(ops) < MaxOps
  /\ ops' = ops \cup { [id |-> Cardinality(ops) + 1, app |-> app, raw |-> batch,
                        status |-> "pending", err |-> "", appliedAt |-> 0] }
  /\ UNCHANGED <<steps, appSpec, nextId, runVars, expVars, rets, k0, bulkVars, executed, procVars>>

\* POST /api/buildr/operations: the request body's operationJson; intent ""
\* when absent or empty, operations absent or an array, possibly empty
OperationJsons ==
  { [intent |-> intent, operations |-> operations] :
      intent \in {"", "modify_ui"},
      operations \in {Absent, Given(<<>>)} \cup { Given(batch) : batch \in RawBatches } }

\* !operationJson.intent || !operationJson.operations: an array, even an empty
\* one, is truthy
operationJsonMissing(operationJson) ==
  operationJson.intent = "" \/ ~operationJson.operations.given

\* the handler: 400 on a missing field, 401/404 when the token or the app is
\* not the caller's, else one pending row and 200
PostOperations(app, operationJson) ==
  /\ Cardinality(ops) < MaxOps
  /\ Len(rets) < MaxCalls
  /\ \E authorized \in BOOLEAN :
       IF operationJsonMissing(operationJson)
       THEN rets' = Append(rets, "400") /\ UNCHANGED ops
       ELSE IF ~authorized
       THEN rets' = Append(rets, "401") /\ UNCHANGED ops
       ELSE /\ rets' = Append(rets, "200")
            /\ ops' = ops \cup { [id |-> Cardinality(ops) + 1, app |-> app,
                                  raw |-> operationJson.operations.list,
                                  status |-> "pending", err |-> "", appliedAt |-> 0,
                                  intent |-> operationJson.intent] }
  /\ UNCHANGED <<steps, appSpec, nextId, runVars, expVars, k0, bulkVars, executed, procVars>>

\* ------------------------------------------------------- expand-operations
\* rows in created_at order (rows are created in id order)
RECURSIVE SortById(_)
SortById(rows) ==
  IF rows = {} THEN <<>>
  ELSE LET first == CHOOSE r \in rows : \A q \in rows : r.id <= q.id
       IN <<first>> \o SortById(rows \ {first})

PendingOperations(byOperation, key) ==
  { o \in ops : o.status = "pending" /\
                (IF byOperation THEN o.id = key ELSE o.app = key) }

\* the same rows numbered from the end of the array
stepsToInsertReversed(operation, firstId) ==
  { [id |-> firstId + i - 1, app |-> operation.app, op |-> operation.id,
     idx |-> Len(operation.raw) - i,
     type |-> Or(operation.raw[i].type, "create_component"),
     target |-> Or(operation.raw[i].name,
                   Or(operation.raw[i].slug, Or(operation.raw[i].target, "step-n"))),
     status |-> "pending", err |-> ""] : i \in 1..Len(operation.raw) }

\* the rows inserted for one operation: one per raw descriptor, index = position
stepsToInsert(operation, firstId) ==
  { [id |-> firstId + i - 1, app |-> operation.app, op |-> operation.id, idx |-> i - 1,
     type |-> Or(operation.raw[i].type, "create_component"),
     target |-> Or(operation.raw[i].name,
                   Or(operation.raw[i].slug, Or(operation.raw[i].target, "step-n"))),
     status |-> "pending", err |-> ""] : i \in 1..Len(operation.raw) }

ExpandFetch(e, byOperation, key) ==
  /\ epc[e] = "idle"
  /\ LET found == SortById(PendingOperations(byOperation, key)) IN
       /\ equeue' = [equeue EXCEPT ![e] = found]
       /\ epc' = [epc EXCEPT ![e] = IF found = <<>> THEN "idle" ELSE "check"]
  /\ UNCHANGED <<ops, steps, appSpec, nextId, runVars, rets, k0, bulkVars, executed, procVars>>

\* a check that finds nothing, whatever the table holds
existingStepsNone(table, operation) == {}

\* .eq(operation_id).eq(app_id).limit(1): rows already linked to the operation
existingSteps(table, operation) ==
  { s \in table : s.op = operation.id /\ s.app = operation.app }

EndOfIteration(e) ==
  /\ equeue' = [equeue EXCEPT ![e] = Tail(equeue[e])]
  /\ epc' = [epc EXCEPT ![e] = IF Tail(equeue[e]) = <<>> THEN "idle" ELSE "check"]

ExpandCheck(e) ==
  /\ epc[e] = "check"
  /\ LET operation == Head(equeue[e])
     IN IF Len(operation.raw) = 0 \/ existingSteps(steps, operation) # {}
        THEN EndOfIteration(e)
        ELSE epc' = [epc EXCEPT ![e] = "purge"] /\ UNCHANGED equeue
  /\ UNCHANGED <<ops, steps, appSpec, nextId, runVars, rets, k0, bulkVars, executed, procVars>>

\* a delete of every row without operation_id, whatever its app
purgeAllOrphans(table, app) == { s \in table : s.op # 0 }

\* delete().eq(app_id).is(operation_id, null): the rows that remain
purgeOrphans(table, app) == { s \in table : ~(s.app = app /\ s.op = 0) }

ExpandPurge(e) ==
  /\ epc[e] = "purge"
  /\ steps' = purgeOrphans(steps, Head(equeue[e]).app)
  /\ epc' = [epc EXCEPT ![e] = "insert"]
  /\ UNCHANGED <<ops, appSpec, nextId, equeue, runVars, rets, k0, bulkVars, executed, procVars>>

ExpandInsert(e) ==
  /\ epc[e] = "insert"
  /\ LET operation == Head(equeue[e]) IN
       /\ nextId + Len(operation.raw) - 1 <= MaxRows
       /\ steps' = steps \cup stepsToInsert(operation, nextId)
       /\ nextId' = nextId + Len(operation.raw)
  /\ EndOfIteration(e)
  /\ UNCHANGED <<ops, appSpec, runVars, rets, k0, bulkVars, executed, procVars>>

\* ------------------------------------------------------------------ run-step
\* a query that only sees rows of step_index 0
NextPendingAtZero(table, app) ==
  { s \in table : s.app = app /\ s.status = "pending" /\ s.idx = 0 }

\* .eq(app_id).eq(status, pending).order(step_index).limit(1): the candidates
NextPending(table, app) ==
  LET pending == { s \in table : s.app = app /\ s.status = "pending" } IN
  { s \in pending : \A q \in pending : s.idx <= q.idx }

\* res.json(response): the request ends and its locals are gone
Return(r, response) ==
  /\ rpc' = [rpc EXCEPT ![r] = "idle"]
  /\ rcur' = [rcur EXCEPT ![r] = NoRow]
  /\ rapp' = [rapp EXCEPT ![r] = NULL]
  /\ rerr' = [rerr EXCEPT ![r] = ""]
  /\ rread' = [rread EXCEPT ![r] = {}]
  /\ rets' = IF k0 >= 0 THEN Append(rets, response) ELSE rets

RunStepSelect(r, app) ==
  /\ rpc[r] = "idle"
  /\ IF NextPending(steps, app) = {}
     THEN Return(r, "done")
     ELSE /\ \E step \in NextPending(steps, app) : rcur' = [rcur EXCEPT ![r] = step]
          /\ rpc' = [rpc EXCEPT ![r] = "selected"]
          /\ rapp' = [rapp EXCEPT ![r] = app]
          /\ UNCHANGED <<rerr, rread, rets>>
  /\ UNCHANGED <<ops, steps, appSpec, nextId, expVars, k0, bulkVars, executed, procVars>>

\* update({status: processing}).eq(id, step.id).select(): rows the update matches
ClaimMatches(table, step) == { s \in table : s.id = step.id }

RunStepMarkProcessing(r) ==
  /\ rpc[r] = "selected"
  /\ IF ClaimMatches(steps, rcur[r]) = {}
     THEN Return(r, "error") /\ UNCHANGED steps
     ELSE /\ steps' = { IF s \in ClaimMatches(steps, rcur[r])
                          THEN SetStatus(s, "processing") ELSE s : s \in steps }
          /\ rpc' = [rpc EXCEPT ![r] = "claimed"]
          /\ UNCHANGED <<rcur, rapp, rerr, rread, rets>>
  /\ UNCHANGED <<ops, appSpec, nextId, expVars, k0, bulkVars, executed, procVars>>

\* the buildr_apps lookup: data is null when the query returns no usable row
RunStepLookupApp(r) ==
  /\ rpc[r] = "claimed"
  /\ \E userFound \in BOOLEAN :
       IF userFound
       THEN rpc' = [rpc EXCEPT ![r] = "resolved"] /\ UNCHANGED <<rcur, rapp, rerr, rread, rets>>
       ELSE Return(r, "error")
  /\ UNCHANGED <<ops, steps, appSpec, nextId, expVars, k0, bulkVars, executed, procVars>>

\* the raw descriptor executeStep hands to the handler: that of a row linked to
\* a fetched Operation whose array has the row's index
descriptorOf(step, opsTable) ==
  IF step.op # 0 /\ HasRow(opsTable, step.op)
       /\ step.idx + 1 \in 1..Len(RowOf(opsTable, step.op).raw)
  THEN {<<step.op, step.idx>>} ELSE {}

RunStepExecute(r) ==
  /\ rpc[r] = "resolved"
  /\ \E now \in Clock :
     LET result == executeStep(rcur[r], ops, rapp[r], appSpec, now) IN
       /\ appSpec' = result.store
       /\ rerr' = [rerr EXCEPT ![r] = result.error]
       /\ rpc' = [rpc EXCEPT ![r] = IF result.success THEN "executed" ELSE "failing"]
  /\ executed' = executed \cup descriptorOf(rcur[r], ops)
  /\ UNCHANGED <<ops, steps, nextId, rcur, rapp, rread, expVars, rets, k0, bulkVars, procVars>>

\* The handler of a claimed row as its awaits split it: the select of the rows
\* it merges into, then (another request may run in between) its writes.
RunStepHandlerRead(r) ==
  /\ rpc[r] = "resolved"
  /\ rread' = [rread EXCEPT ![r] = appSpec]
  /\ rpc' = [rpc EXCEPT ![r] = "read"]
  /\ UNCHANGED <<ops, steps, appSpec, nextId, rcur, rapp, rerr, expVars, rets, k0, bulkVars, executed, procVars>>

\* the rows a handler that read readStore and computed resultStore writes,
\* upserted or updated by key into the store as it is now
writeBack(store, readStore, resultStore) ==
  LET written == resultStore \ readStore IN
  { e \in store : ~\E w \in written : w.app = e.app /\ w.ctype = e.ctype /\ w.key = e.key }
    \cup written

RunStepHandlerWrite(r) ==
  /\ rpc[r] = "read"
  /\ \E now \in Clock :
     LET result == executeStep(rcur[r], ops, rapp[r], rread[r], now) IN
       /\ appSpec' = writeBack(appSpec, rread[r], result.store)
       /\ rerr' = [rerr EXCEPT ![r] = result.error]
       /\ rpc' = [rpc EXCEPT ![r] = IF result.success THEN "executed" ELSE "failing"]
  /\ executed' = executed \cup descriptorOf(rcur[r], ops)
  /\ UNCHANGED <<ops, steps, nextId, rcur, rapp, rread, expVars, rets, k0, bulkVars, procVars>>

RunStepMarkApplied(r) ==
  /\ rpc[r] = "executed"
  /\ IF HasRow(steps, rcur[r].id)
     THEN /\ steps' = SetStatusById(steps, rcur[r].id, "applied")
          /\ Return(r, "applied")
     ELSE /\ rerr' = [rerr EXCEPT ![r] = "Failed to mark step as applied: No rows updated"]
          /\ rpc' = [rpc EXCEPT ![r] = "failing"]
          /\ UNCHANGED <<steps, rcur, rapp, rread, rets>>
  /\ UNCHANGED <<ops, appSpec, nextId, expVars, k0, bulkVars, executed, procVars>>

\* a catch block that puts the row back to pending
MarkFailedAsPending(table, id, message) ==
  SetStatusById(table, id, "pending")

\* a catch block that fails every row of the table
MarkFailedAll(table, id, message) == { SetStatus(s, "failed") : s \in table }

\* the catch block: the row's status becomes failed, nothing else is written
MarkFailed(table, id, message) == SetStatusById(table, id, "failed")

RunStepMarkFailed(r) ==
  /\ rpc[r] = "failing"
  /\ steps' = MarkFailed(steps, rcur[r].id, rerr[r])
  /\ Return(r, "error")
  /\ UNCHANGED <<ops, appSpec, nextId, expVars, k0, bulkVars, executed, procVars>>

RunStep(r) ==
  \/ \E app \in StepApps : RunStepSelect(r, app)
  \/ RunStepMarkProcessing(r)
  \/ RunStepLookupApp(r)
  \/ RunStepExecute(r)
  \/ RunStepMarkApplied(r)
  \/ RunStepMarkFailed(r)

Expand(e) ==
  \/ \E app \in StepApps : ExpandFetch(e, FALSE, app)
  \/ \E id \in 1..MaxOps : ExpandFetch(e, TRUE, id)
  \/ ExpandCheck(e)
  \/ ExpandPurge(e)
  \/ ExpandInsert(e)

\* ------------------------------------------------------ run/[appId] (bulk)
\* pending operations of the app in created_at order
BulkFetch(appId) ==
  /\ bpc = "idle"
  /\ LET operations == SortById(PendingOperations(FALSE, appId)) IN
       IF Len(operations) = 0
       THEN UNCHANGED bulkVars
       ELSE /\ bpc' = "marking"
            /\ bapp' = appId
            /\ bqueue' = operations
            /\ UNCHANGED <<bidx, berrs, berror>>
  /\ UNCHANGED <<ops, steps, appSpec, nextId, runVars, expVars, rets, k0, executed, procVars>>

\* update by id of the operation's status (and error_message, applied_at)
MarkOperation(table, id, st, message) ==
  { IF o.id = id
      THEN [o EXCEPT !.status = st, !.err = message,
                     !.appliedAt = IF st = "applied" THEN 1 ELSE @]
      ELSE o : o \in table }

\* the operation becomes processing; an empty operations array throws
BulkMarkProcessing ==
  /\ bpc = "marking"
  /\ LET operation == Head(bqueue) IN
       /\ ops' = MarkOperation(ops, operation.id, "processing", RowOf(ops, operation.id).err)
       /\ IF Len(operation.raw) = 0
          THEN bpc' = "failing" /\ berror' = "Invalid operations format"
          ELSE bpc' = "stepping" /\ berror' = ""
       /\ bidx' = 0
       /\ berrs' = <<>>
  /\ UNCHANGED <<steps, appSpec, nextId, runVars, expVars, rets, k0, bapp, bqueue,
                 executed, procVars>>

\* stepErrors.join("; ")
RECURSIVE join(_, _)
join(list, i) ==
  IF i > Len(list) THEN ""
  ELSE IF i = Len(list) THEN list[i]
  ELSE list[i] \o "; " \o join(list, i + 1)

\* the loop goes through steps.length turns; then stepErrors decides
afterStep(stepErrors, i, n) ==
  IF i < n THEN "stepping" ELSE IF stepErrors # <<>> THEN "failing" ELSE "applying"

\* one turn of the loop over the operation's steps
BulkStep ==
  /\ bpc = "stepping"
  /\ LET operation == Head(bqueue)
         step == operation.raw[bidx + 1]
     IN \E now \in Clock :
        LET stepResult == executeStepHandler(bapp, step, appSpec, now)
            stepErrors ==
              IF step.type = ""
                THEN Append(berrs, "Step " \o ToString(bidx + 1)
                                     \o ": missing required field 'type'")
              ELSE IF ~stepResult.success
                THEN Append(berrs, "Step " \o ToString(bidx + 1) \o " (" \o step.type
                                     \o "): " \o stepResult.error)
              ELSE berrs
        IN /\ appSpec' = IF step.type = "" THEN appSpec ELSE stepResult.store
           /\ executed' = IF step.type = "" THEN executed
                          ELSE executed \cup {<<operation.id, bidx>>}
           /\ berrs' = stepErrors
           /\ bidx' = bidx + 1
           /\ bpc' = afterStep(stepErrors, bidx + 1, Len(operation.raw))
           /\ berror' = IF afterStep(stepErrors, bidx + 1, Len(operation.raw)) = "failing"
                        THEN join(stepErrors, 1) ELSE berror
  /\ UNCHANGED <<ops, steps, nextId, runVars, expVars, rets, k0, bapp, bqueue, procVars>>

\* the end of the turn for one operation: on to the next, or the response
NextInQueue ==
  /\ bqueue' = Tail(bqueue)
  /\ bpc' = IF Len(bqueue) > 1 THEN "marking" ELSE "idle"
  /\ bapp' = IF Len(bqueue) > 1 THEN bapp ELSE NULL
  /\ bidx' = 0
  /\ berrs' = <<>>
  /\ berror' = ""

BulkMarkApplied ==
  /\ bpc = "applying"
  /\ ops' = MarkOperation(ops, Head(bqueue).id, "applied", "")
  /\ NextInQueue
  /\ UNCHANGED <<steps, appSpec, nextId, runVars, expVars, rets, k0, executed, procVars>>

\* the catch block of the operation
BulkMarkFailed ==
  /\ bpc = "failing"
  /\ ops' = MarkOperation(ops, Head(bqueue).id, "failed", berror)
  /\ NextInQueue
  /\ UNCHANGED <<steps, appSpec, nextId, runVars, expVars, rets, k0, executed, procVars>>

BulkRun ==
  \/ \E app \in StepApps : BulkFetch(app)
  \/ BulkMarkProcessing
  \/ BulkStep
  \/ BulkMarkApplied
  \/ BulkMarkFailed

Submit == \E app \in StepApps, batch \in RawBatches : SubmitOperation(app, batch)

\* concurrent run-step requests, expansions one at a time
Next ==
  \/ Submit
  \/ Expand("e1")
  \/ \E r \in Runners : RunStep(r)

Spec == Init /\ [][Next]_vars

\* concurrent expansions, run-step requests one at a time
NextExpand ==
  \/ Submit
  \/ \E e \in Expanders : Expand(e)
  \/ RunStep("r1")

SpecExpand == Init /\ [][NextExpand]_vars

\* submissions through the operations API, and their expansion
NextPost ==
  \/ \E app \in StepApps, operationJson \in OperationJsons : PostOperations(app, operationJson)
  \/ Expand("e1")

SpecPost == Init /\ [][NextPost]_vars

\* ------------------------------------------------ a sequential caller
\* The step table as sequential submissions and expansions leave it: every
\* operation expanded once, in submission order.
RECURSIVE ExpandedRows(_, _, _)
ExpandedRows(batches, n, firstId) ==
  IF n > Len(batches) THEN {}
  ELSE stepsToInsert([id |-> n, app |-> "a1", raw |-> batches[n]], firstId)
         \cup ExpandedRows(batches, n + 1, firstId + Len(batches[n]))

InitSeq ==
  /\ InitRequests
  /\ appSpec = {} /\ appOps = {} /\ appConfig = {} /\ versions = {}
  /\ \/ \E n \in 0..MaxOps : \E batches \in [1..n -> SeqBatches] :
          /\ ops = { [id |-> i, app |-> "a1", raw |-> batches[i], status |-> "pending",
                      err |-> "", appliedAt |-> 0] : i \in 1..n }
          /\ steps = ExpandedRows(batches, 1, 1)
     \/ ops = {} /\ steps = {orphanStep}
  /\ nextId = Cardinality(steps) + 1
  /\ k0 = Cardinality({ s \in steps : s.app = "a1" /\ s.status = "pending" })
  /\ rets = <<>>

NextSeq == Len(rets) < MaxCalls /\ RunStep("r1")

SpecSeq == InitSeq /\ [][NextSeq]_vars

\* ------------------------------------------------ callers for two apps
\* One caller at a time, each request for either app; app a1 has expanded
\* operations, app a2 two directly inserted rows.
otherRows(firstId) ==
  { [orphanOther EXCEPT !.id = firstId],
    [orphanOther EXCEPT !.id = firstId + 1, !.idx = 1, !.target = "other"] }

InitApps ==
  /\ InitRequests
  /\ appSpec = {} /\ appOps = {} /\ appConfig = {} /\ versions = {}
  /\ \E n \in 1..MaxOps : \E batches \in [1..n -> SeqBatches] :
       /\ ops = { [id |-> i, app |-> "a1", raw |-> batches[i], status |-> "pending",
                   err |-> "", appliedAt |-> 0] : i \in 1..n }
       /\ steps = ExpandedRows(batches, 1, 1)
                    \cup otherRows(Cardinality(ExpandedRows(batches, 1, 1)) + 1)
  /\ nextId = Cardinality(steps) + 1
  /\ k0 = Cardinality({ s \in steps : s.app = "a1" /\ s.status = "pending" })
  /\ rets = <<>>

NextApps ==
  /\ Len(rets) < MaxCalls
  /\ \/ \E app \in Apps : RunStepSelect("r1", app)
     \/ RunStepMarkProcessing("r1")
     \/ RunStepLookupApp("r1")
     \/ RunStepExecute("r1")
     \/ RunStepMarkApplied("r1")
     \/ RunStepMarkFailed("r1")

SpecApps == InitApps /\ [][NextApps]_vars

\* ------------------------------------------------ requests for either app
\* Submissions, one expansion and one run-step request at a time, each for
\* either app.
SubmitAny == \E app \in Apps, batch \in RawBatches : SubmitOperation(app, batch)

ExpandAny(e) ==
  \/ \E app \in Apps : ExpandFetch(e, FALSE, app)
  \/ \E id \in 1..MaxOps : ExpandFetch(e, TRUE, id)
  \/ ExpandCheck(e)
  \/ ExpandPurge(e)
  \/ ExpandInsert(e)

RunStepAny(r) ==
  \/ \E app \in Apps : RunStepSelect(r, app)
  \/ RunStepMarkProcessing(r)
  \/ RunStepLookupApp(r)
  \/ RunStepExecute(r)
  \/ RunStepMarkApplied(r)
  \/ RunStepMarkFailed(r)

NextFrame ==
  \/ SubmitAny
  \/ ExpandAny("e1")
  \/ RunStepAny("r1")

SpecFrame == Init /\ [][NextFrame]_vars

\* ------------------------------------------------ one create_model step
\* One expanded operation holding one create_model step with one field, its
\* type any spelled string or absent; one caller runs it.
InitTypes ==
  /\ InitRequests
  /\ appSpec = {} /\ appOps = {} /\ appConfig = {} /\ versions = {}
  /\ \E type \in TypeStrings \cup {""} :
       LET batch == << Desc("create_model", "Order", "", <<Field("total", type)>>, "") >>
       IN /\ ops = { [id |-> 1, app |-> "a1", raw |-> batch, status |-> "pending",
                      err |-> "", appliedAt |-> 0] }
          /\ steps = ExpandedRows(<<batch>>, 1, 1)
  /\ nextId = 2
  /\ k0 = -1
  /\ rets = <<>>

NextTypes == RunStep("r1")

SpecTypes == InitTypes /\ [][NextTypes]_vars

\* ------------------------------------------------ set_permissions steps
pUser == Perm("orders", "read", "user")
pNoRole == Perm("orders", "read", "")
pWrite == Perm("orders", "write", "admin")
pFly == Perm("orders", "fly", "user")
pRoot == Perm("orders", "read", "root")
pNoResource == Perm("", "read", "user")

PermSteps ==
  { PermStep("", Given(<<pUser>>), NoDetails),
    PermStep("", Given(<<pNoRole>>), NoDetails),
    PermStep("", Given(<<pUser, pUser>>), NoDetails),
    PermStep("", Given(<<pWrite, pFly>>), NoDetails),
    PermStep("", Given(<<pWrite, pRoot>>), NoDetails),
    PermStep("", Given(<<pNoResource>>), NoDetails),
    PermStep("", Given(<<>>), NoDetails),
    PermStep("orders", Absent, NoDetails),
    PermStep("orders", Absent, DetailsObject(Given(<<"read", "write">>), Given(<<pWrite>>), Absent)),
    PermStep("orders", Absent, DetailsObject(Absent, Given(<<pNoRole, pWrite>>), Absent)),
    PermStep("orders", Absent, DetailsObject(Absent, Absent, Given(<<pWrite>>))),
    PermStep("orders", Absent, DetailsArray(<<pUser>>)) }

\* One expanded operation of 1..MaxSteps set_permissions steps; one caller runs them.
InitPerms ==
  /\ InitRequests
  /\ appSpec = {} /\ appOps = {} /\ appConfig = {} /\ versions = {}
  /\ \E n \in 1..MaxSteps : \E batch \in [1..n -> PermSteps] :
       /\ ops = { [id |-> 1, app |-> "a1", raw |-> batch, status |-> "pending",
                   err |-> "", appliedAt |-> 0] }
       /\ steps = ExpandedRows(<<batch>>, 1, 1)
  /\ nextId = Cardinality(steps) + 1
  /\ k0 = -1
  /\ rets = <<>>

NextPerms == RunStep("r1")

SpecPerms == InitPerms /\ [][NextPerms]_vars

\* ------------------------------------- create_page and create_component steps
dHomeOnOrders == Desc("create_page", "", "home", <<>>, "orders")
dHomeOnMain == Desc("create_page", "", "home", <<>>, "main")
dHomeOnButton == Desc("create_page", "", "home", <<>>, "Button")
cButton == CompStep("Button", "", "p1", "", "")
cButtonWidget == CompStep("Button", "Widget", "p2", "", "")
cCardOnOrders == CompStep("Card", "", "p1", "orders", "")
cCardOnOrdersId == CompStep("Card", "Panel", "", "orders", "c1")
cCardOnButton == CompStep("Card", "", "", "Button", "")
cOrdersOnOrders == CompStep("orders", "", "", "orders", "")
cCardOnMissing == CompStep("Card", "", "p1", "missing", "")
cNoName == CompStep("", "", "", "", "")
cOrders == CompStep("orders", "Table", "p1", "", "")

UiSteps ==
  { dPage, dHomeOnOrders, dHomeOnMain, dHomeOnButton, cButton, cButtonWidget,
    cCardOnOrders, cCardOnOrdersId, cCardOnButton, cOrdersOnOrders, cCardOnMissing,
    cNoName, cOrders }

\* One expanded operation of 1..MaxSteps page and component steps; one caller
\* runs them.
InitUi ==
  /\ InitRequests
  /\ appSpec = {} /\ appOps = {} /\ appConfig = {} /\ versions = {}
  /\ \E n \in 1..MaxSteps : \E batch \in [1..n -> UiSteps] :
       /\ ops = { [id |-> 1, app |-> "a1", raw |-> batch, status |-> "pending",
                   err |-> "", appliedAt |-> 0] }
       /\ steps = ExpandedRows(<<batch>>, 1, 1)
  /\ nextId = Cardinality(steps) + 1
  /\ k0 = -1
  /\ rets = <<>>

NextUi == RunStep("r1")

SpecUi == InitUi /\ [][NextUi]_vars

\* ------------------ the bulk runner beside the expander and the run loop
dNoType == [CompStep("Order", "", "p1", "", "") EXCEPT !.type = ""]

BulkJsons ==
  OperationJsons \cup
  { [intent |-> "modify_ui", operations |-> Given(batch)] :
      batch \in { <<dNoType, dPage>>, <<dModel, dModelAlias, dPage>> } }

\* the intent producer's rows, expanded and run step by step, and run in bulk
NextBulk ==
  \/ \E batch \in RawBatches : SubmitOperation("a1", batch)
  \/ Expand("e1")
  \/ RunStep("r1")
  \/ BulkRun

SpecBulk == Init /\ [][NextBulk]_vars

\* posted operations run in bulk only
NextBulkPost ==
  \/ \E operationJson \in BulkJsons : PostOperations("a1", operationJson)
  \/ BulkRun

SpecBulkPost == Init /\ [][NextBulkPost]_vars

\* ------------------------- two callers running merging steps of one app
cButtonOnOrders == CompStep("Button", "", "p2", "orders", "")

MergingSteps ==
  { PermStep("", Given(<<pUser>>), NoDetails), PermStep("", Given(<<pWrite>>), NoDetails),
    cCardOnOrders, cButtonOnOrders }

\* The page orders is stored; one expanded operation of 1..MaxSteps
\* set_permissions and create_component steps is pending.
InitRace ==
  /\ InitRequests
  /\ appSpec = handleCreatePage("a1", dPage, {}).store
  /\ appOps = {} /\ appConfig = {} /\ versions = {}
  /\ \E n \in 1..MaxSteps : \E batch \in [1..n -> MergingSteps] :
       /\ ops = { [id |-> 1, app |-> "a1", raw |-> batch, status |-> "pending",
                   err |-> "", appliedAt |-> 0] }
       /\ steps = ExpandedRows(<<batch>>, 1, 1)
  /\ nextId = Cardinality(steps) + 1
  /\ k0 = -1
  /\ rets = <<>>

RunStepRace(r) ==
  \/ RunStepSelect(r, "a1")
  \/ RunStepMarkProcessing(r)
  \/ RunStepLookupApp(r)
  \/ RunStepHandlerRead(r)
  \/ RunStepHandlerWrite(r)
  \/ RunStepMarkApplied(r)
  \/ RunStepMarkFailed(r)

NextRace == Len(rets) < MaxCalls /\ \E r \in Runners : RunStepRace(r)

SpecRace == InitRace /\ [][NextRace]_vars

\* ------------------------------------------- operation processor (validate,
\* apply, snapshot) over buildr_app_operations
ConfigExists(config, app, ctype, key) ==
  \E c \in config : c.app = app /\ c.ctype = ctype /\ c.key = key

validThemes == {"light", "dark", "auto"}
validOperationTypes ==
  {"add_component", "update_theme", "add_page", "update_data_model", "add_permission",
   "update_layout", "remove_component", "remove_page"}

validateAddPage(appId, operation, config) ==
  IF operation.page.slug = "" THEN <<"Page missing required field: slug">>
  ELSE (IF ConfigExists(config, appId, "page", operation.page.slug)
        THEN <<"Page already exists">> ELSE <<>>)
       \o (IF operation.page.layout # "" /\
              ~ConfigExists(config, appId, "layout", operation.page.layout)
           THEN <<"Layout does not exist">> ELSE <<>>)

validateUpdateTheme(operation) ==
  IF operation.theme = "" THEN <<"Missing required field: theme">>
  ELSE IF operation.theme \notin validThemes THEN <<"Invalid theme">>
  ELSE <<>>

validateOperation(appId, operation, config) ==
  IF operation.type \notin validOperationTypes THEN <<"Invalid operation type">>
  ELSE CASE operation.type = "add_page" -> validateAddPage(appId, operation, config)
         [] operation.type = "update_theme" -> validateUpdateTheme(operation)
         [] OTHER -> <<>>

\* a loop that stops at the first invalid operation
RECURSIVE validateUntilFirstError(_, _, _, _)
validateUntilFirstError(appId, operations, config, i) ==
  IF i > Len(operations) THEN <<>>
  ELSE IF validateOperation(appId, operations[i], config) # <<>>
    THEN << <<i, operations[i].type, validateOperation(appId, operations[i], config)>> >>
  ELSE validateUntilFirstError(appId, operations, config, i + 1)

\* one entry per invalid operation, in batch order, tagged with its 1-based index
RECURSIVE validateOperations(_, _, _, _)
validateOperations(appId, operations, config, i) ==
  IF i > Len(operations) THEN <<>>
  ELSE (IF validateOperation(appId, operations[i], config) # <<>>
        THEN << <<i, operations[i].type, validateOperation(appId, operations[i], config)>> >>
        ELSE <<>>)
       \o validateOperations(appId, operations, config, i + 1)

\* insert into a table whose (app, type, key) is unique: a duplicate is refused
InsertConfig(config, row) ==
  IF ConfigExists(config, row.app, row.ctype, row.key) THEN config ELSE config \cup {row}

applyOperation(appId, operation, config) ==
  CASE operation.type = "add_page" ->
         InsertConfig(config, [app |-> appId, ctype |-> "page", key |-> operation.page.slug,
                               value |-> operation.page])
    [] operation.type = "update_theme" ->
         { c \in config : ~(c.app = appId /\ c.ctype = "schema" /\ c.key = "theme") }
           \cup { [app |-> appId, ctype |-> "schema", key |-> "theme",
                   value |-> [theme |-> operation.theme]] }
    [] OTHER -> config

RECURSIVE applyOperations(_, _, _, _)
applyOperations(appId, operations, config, i) ==
  IF i > Len(operations) THEN config
  ELSE applyOperations(appId, operations, applyOperation(appId, operations[i], config), i + 1)

\* buildr_get_next_version_number: coalesce(max(version_number), 0) + 1
MaxVersion(rows) ==
  IF rows = {} THEN 0
  ELSE CHOOSE m \in { r.version : r \in rows } : \A q \in rows : q.version <= m

buildr_get_next_version_number(table, appId) ==
  MaxVersion({ v \in table : v.app = appId }) + 1

\* a write that replaces the row of the same app and version number
ReplaceVersion(table, row) ==
  { v \in table : ~(v.app = row.app /\ v.version = row.version) } \cup {row}

\* insert into buildr_app_versions, whose (app_id, version_number) is unique
InsertVersion(table, row) ==
  IF \E v \in table : v.app = row.app /\ v.version = row.version THEN table
  ELSE table \cup {row}

\* a producer outside this repository stores a pending row
SubmitAppOperation(app, batch) ==
  /\ Cardinality(appOps) < MaxAppOps
  /\ appOps' = appOps \cup { [id |-> Cardinality(appOps) + 1, app |-> app, raw |-> batch,
                              status |-> "pending", err |-> <<>>, appliedAt |-> 0] }
  /\ UNCHANGED <<ops, steps, appSpec, nextId, runVars, expVars, rets, k0, bulkVars, executed,
                 appConfig, versions, wpc, wqueue, wver>>

PendingAppOperations(byOperation, key) ==
  { o \in appOps : o.status = "pending" /\
                   (IF byOperation THEN o.id = key ELSE o.app = key) }

ProcessFetch(w, byOperation, key) ==
  /\ wpc[w] = "idle"
  /\ LET found == SortById(PendingAppOperations(byOperation, key)) IN
       /\ wqueue' = [wqueue EXCEPT ![w] = found]
       /\ wpc' = [wpc EXCEPT ![w] = IF found = <<>> THEN "idle" ELSE "validate"]
  /\ UNCHANGED <<ops, steps, appSpec, nextId, runVars, expVars, rets, k0, bulkVars, executed,
                 appOps, appConfig, versions, wver>>

NextOperation(w) ==
  /\ wqueue' = [wqueue EXCEPT ![w] = Tail(wqueue[w])]
  /\ wpc' = [wpc EXCEPT ![w] = IF Tail(wqueue[w]) = <<>> THEN "idle" ELSE "validate"]
  /\ wver' = [wver EXCEPT ![w] = 0]

ProcessValidate(w) ==
  /\ wpc[w] = "validate"
  /\ LET operation == Head(wqueue[w])
         errors == validateOperations(operation.app, operation.raw, appConfig, 1)
     IN IF errors # <<>>
        THEN /\ appOps' = { IF o.id = operation.id
                                THEN [o EXCEPT !.status = "failed", !.err = errors]
                                ELSE o : o \in appOps }
             /\ NextOperation(w)
        ELSE /\ wpc' = [wpc EXCEPT ![w] = "apply"]
             /\ UNCHANGED <<appOps, wqueue, wver>>
  /\ UNCHANGED <<ops, steps, appSpec, nextId, runVars, expVars, rets, k0, bulkVars, executed,
                 appConfig, versions>>

ProcessApply(w) ==
  /\ wpc[w] = "apply"
  /\ LET operation == Head(wqueue[w]) IN
       appConfig' = applyOperations(operation.app, operation.raw, appConfig, 1)
  /\ wpc' = [wpc EXCEPT ![w] = "version"]
  /\ UNCHANGED <<ops, steps, appSpec, nextId, runVars, expVars, rets, k0, bulkVars, executed,
                 appOps, versions, wqueue, wver>>

\* createVersionSnapshot, first await: the rpc
ProcessNextVersion(w) ==
  /\ wpc[w] = "version"
  /\ wver' = [wver EXCEPT ![w] =
                buildr_get_next_version_number(versions, Head(wqueue[w]).app)]
  /\ wpc' = [wpc EXCEPT ![w] = "snapshot"]
  /\ UNCHANGED <<ops, steps, appSpec, nextId, runVars, expVars, rets, k0, bulkVars, executed,
                 appOps, appConfig, versions, wqueue>>

\* createVersionSnapshot: the configSnapshot object built from the app's rows.
\* A page is {id: row.id, ...value, slug: row.config_key}.
rowId(row) == "row-" \o row.app \o "-" \o row.ctype \o "-" \o row.key
snapshotPage(row) ==
  [f \in DOMAIN row.value \cup {"id", "slug"} |->
     IF f = "slug" THEN row.key
     ELSE IF f \in DOMAIN row.value THEN row.value[f]
     ELSE rowId(row)]
configSnapshot(rows) ==
  LET schemaRows == { r \in rows : r.ctype = "schema" } IN
  [pages |-> { snapshotPage(r) : r \in { q \in rows : q.ctype = "page" } },
   schema |-> IF schemaRows = {} THEN Absent
              ELSE Given((CHOOSE r \in schemaRows : TRUE).value)]

\* a snapshot whose failure ends the processing of the operation
afterSnapshotThrows(written) == IF written THEN "mark" ELSE "idle"

\* createVersionSnapshot returns normally whether or not the row was written:
\* the insert's error is not read and the catch block logs and swallows
afterSnapshot(written) == "mark"

\* createVersionSnapshot, the rest: read the config rows, insert the version row
ProcessSnapshot(w) ==
  /\ wpc[w] = "snapshot"
  /\ LET operation == Head(wqueue[w]) IN
       versions' = InsertVersion(versions,
                     [app |-> operation.app, version |-> wver[w], op |-> operation.id,
                      snapshot |-> configSnapshot({ c \in appConfig : c.app = operation.app }),
                      captured |-> { c \in appConfig : c.app = operation.app }])
  /\ wpc' = [wpc EXCEPT ![w] = afterSnapshot(versions' # versions)]
  /\ UNCHANGED <<ops, steps, appSpec, nextId, runVars, expVars, rets, k0, bulkVars, executed,
                 appOps, appConfig, wqueue, wver>>

ProcessMarkApplied(w) ==
  /\ wpc[w] = "mark"
  /\ appOps' = { IF o.id = Head(wqueue[w]).id
                    THEN [o EXCEPT !.status = "applied", !.appliedAt = 1]
                    ELSE o : o \in appOps }
  /\ NextOperation(w)
  /\ UNCHANGED <<ops, steps, appSpec, nextId, runVars, expVars, rets, k0, bulkVars, executed,
                 appConfig, versions>>

Process(w) ==
  \/ \E app \in Apps : ProcessFetch(w, FALSE, app)
  \/ \E id \in 1..MaxAppOps : ProcessFetch(w, TRUE, id)
  \/ ProcessValidate(w)
  \/ ProcessApply(w)
  \/ ProcessNextVersion(w)
  \/ ProcessSnapshot(w)
  \/ ProcessMarkApplied(w)

\* ------------------------------------------------ POST app-versions (revert)
\* getAppConfigAtVersion: the snapshot of the version row, none when not found
VersionRows(table, appId, versionNumber) ==
  { v \in table : v.app = appId /\ v.version = versionNumber }

\* the rows the handler inserts from the snapshot object: pages under their
\* slug, the schema under the key main
restoreConfig(appId, version) ==
  { [app |-> appId, ctype |-> "page", key |-> page.slug, value |-> page] :
      page \in version.snapshot.pages }
  \cup (IF version.snapshot.schema.given
        THEN { [app |-> appId, ctype |-> "schema", key |-> "main",
                value |-> version.snapshot.schema.list] }
        ELSE {})

\* delete the app's rows, then insert what the snapshot holds
Rollback(appId, versionNumber) ==
  /\ VersionRows(versions, appId, versionNumber) # {}
  /\ LET version == CHOOSE v \in VersionRows(versions, appId, versionNumber) : TRUE IN
       appConfig' = { c \in appConfig : c.app # appId } \cup restoreConfig(appId, version)
  /\ UNCHANGED <<ops, steps, appSpec, nextId, runVars, expVars, rets, k0, bulkVars, executed,
                 appOps, versions, wpc, wqueue, wver>>

SubmitApp == \E app \in Apps, batch \in AppOpBatches : SubmitAppOperation(app, batch)

NextOps ==
  \/ SubmitApp
  \/ \E w \in Workers : Process(w)

SpecOps == Init /\ [][NextOps]_vars

\* the processor and reverts, any interleaving
Revert == \E app \in Apps, versionNumber \in 1..MaxAppOps : Rollback(app, versionNumber)

NextRevert ==
  \/ SubmitApp
  \/ \E w \in Workers : Process(w)
  \/ Revert

SpecRevert == Init /\ [][NextRevert]_vars

\* ================================================================== claims
Claimed == {"claimed", "resolved", "executed", "failing"}
RunLoopIdle == \A r \in Runners : rpc[r] = "idle"
ProcessorsIdle == \A w \in Workers : wpc[w] = "idle"
StepsOf(o) == { s \in steps : s.op = o.id }

\* C1: a pending Step is claimed by at most one run-one-step invocation: no two
\* invocations hold the same Step as claimed (and go on to execute it).
C1_ClaimedByAtMostOne ==
  \A r1, r2 \in Runners :
    (r1 # r2 /\ rpc[r1] \in Claimed /\ rpc[r2] \in Claimed) => rcur[r1].id # rcur[r2].id

\* C2: within one Operation a Step is never claimed (moved to processing) while a
\* Step of the same Operation with a lower index is still pending.
C2_IndexOrder ==
  [][ \A s \in steps' :
        ( /\ s.op # 0
          /\ s.status = "processing"
          /\ \E before \in steps : before.id = s.id /\ before.status # "processing" )
        => \A t \in steps : (t.op = s.op /\ t.idx < s.idx) => t.status # "pending" ]_vars

\* C3: at most one Step of a given Operation is in status processing.
C3_OneProcessingPerOperation ==
  \A s1, s2 \in steps :
    (s1.op # 0 /\ s1.op = s2.op /\ s1.status = "processing" /\ s2.status = "processing")
    => s1.id = s2.id

\* C4: no action of the pipeline changes the status of a Step that is already
\* applied or failed.
C4_TerminalIsFinal ==
  [][ \A s \in steps : s.status \in {"applied", "failed"}
        => \A q \in steps' : q.id = s.id => q.status = s.status ]_vars

C6_ClaimedStepEndsTerminal ==
  [][ \A r \in Runners : (rpc[r] \in Claimed /\ rpc'[r] = "idle")
        => \A s \in steps' : s.id = rcur[r].id => s.status \in {"applied", "failed"} ]_vars

\* C7: the versionNumbers of an app's snapshots are exactly 1..N, N the number
\* of its applied Operations. Stated for the states in which no processor request
\* is in flight, every Operation of the app is applied and none was snapshotted
\* twice, so that only the numbering decides it.
C7_VersionsAreOneToN ==
  \A app \in Apps :
    LET mine == { v \in versions : v.app = app }
        all == { o \in appOps : o.app = app }
        applied == { o \in all : o.status = "applied" }
    IN ( /\ ProcessorsIdle
         /\ applied = all
         /\ \A o \in all : Cardinality({ v \in mine : v.op = o.id }) <= 1 )
       => /\ { v.version : v \in mine } = 1..Cardinality(applied)
          /\ Cardinality(mine) = Cardinality(applied)

\* C8: once every Step of an Operation has been applied by the Run Loop (and no
\* invocation is in flight), the Operation is applied with appliedAt set.
C8_OperationApplied ==
  RunLoopIdle =>
    \A o \in ops :
      ( /\ Cardinality(StepsOf(o)) = Len(o.raw)
        /\ \A s \in StepsOf(o) : s.status = "applied" )
      => (o.status = "applied" /\ o.appliedAt # 0)

\* C9: no Operation ever has more than one VersionSnapshot referencing it.
C9_AtMostOneSnapshot ==
  \A o \in appOps : Cardinality({ v \in versions : v.op = o.id /\ v.app = o.app }) <= 1

\* C10: a failed Step carries the error message, and its owning Operation is
\* failed with the error recorded.
C10_FailureRecorded ==
  \A s \in steps : s.status = "failed" =>
    /\ s.err # ""
    /\ s.op # 0 => \E o \in ops : o.id = s.op /\ o.status = "failed" /\ o.err # ""

\* ------------------------------------------------------------ step expander
LinkedSteps(table, o) == { s \in table : s.op = o.id }
Inserting(e) == epc[e] = "insert" /\ epc'[e] # "insert"
Purging(e) == epc[e] = "purge" /\ epc'[e] # "purge"

\* C11: a step of the Step Expander never inserts, deletes or modifies a Step of an
\* Operation that already has Steps linked to it: a second expansion is a no-op.
C11_ExpanderIdempotent ==
  [][ epc' # epc =>
        \A o \in ops : LinkedSteps(steps, o) # {}
                        => LinkedSteps(steps', o) = LinkedSteps(steps, o) ]_vars

\* C11 witness: a later expander run is looking at an Operation that is still
\* pending and already has its Steps.
C11_Witness ==
  /\ epc["e1"] = "check"
  /\ existingSteps(steps, Head(equeue["e1"])) # {}

\* C12: no two Steps with the same operationId have the same index.
C12_UniqueIndex ==
  \A s1, s2 \in steps :
    (s1.op # 0 /\ s1.op = s2.op /\ s1.idx = s2.idx) => s1.id = s2.id

\* C13: expanding a pending Operation without linked Steps inserts exactly one Step
\* per raw descriptor: pending, linked to the Operation, index = 0-based position
\* of the descriptor (the row at index i carries descriptor i's type).
C13_OneStepPerDescriptor ==
  [][ \A e \in Expanders :
        (Inserting(e) /\ existingSteps(steps, Head(equeue[e])) = {}) =>
          LET o == Head(equeue[e])
              new == steps' \ steps
          IN /\ steps \subseteq steps'
             /\ Cardinality(new) = Len(o.raw)
             /\ \A i \in 1..Len(o.raw) :
                  \E s \in new : /\ s.idx = i - 1
                                 /\ s.op = o.id
                                 /\ s.app = o.app
                                 /\ s.status = "pending"
                                 /\ s.type = o.raw[i].type ]_vars

\* C13 witness: an Operation with two descriptors has been expanded into two
\* pending Steps.
C13_Witness ==
  \E o \in ops : /\ Len(o.raw) = 2
                  /\ Cardinality(LinkedSteps(steps, o)) = 2
                  /\ \A s \in LinkedSteps(steps, o) : s.status = "pending"

Executing(r) == rpc[r] = "resolved" /\ rpc'[r] \in {"executed", "failing"}
Succeeded(r) == rpc'[r] = "executed"
\* the raw descriptor the handler is run with (Steps linked to an Operation)
Payload(r) == RowOf(ops, rcur[r].op).raw[rcur[r].idx + 1]
Entries(store, app, ctype) == { e \in store : e.app = app /\ e.ctype = ctype }

\* C15: create_model for a name, and create_page for a slug, that the app already
\* has an entry for fails and leaves the Specification Store unchanged.
C15_CreateRejectsExisting ==
  [][ \A r \in Runners :
        ( /\ Executing(r)
          /\ rcur[r].op # 0
          /\ \/ /\ Payload(r).type = "create_model"
                /\ \E e \in Entries(appSpec, rapp[r], "architecture") :
                     e.key = Or(Payload(r).name, Payload(r).target)
             \/ /\ Payload(r).type = "create_page"
                /\ \E e \in Entries(appSpec, rapp[r], "ui") :
                     e.key = Or(Payload(r).slug, Payload(r).target) )
        => (~Succeeded(r) /\ appSpec' = appSpec) ]_vars

\* C15 witness: a create_model step has just failed on a model the app already has.
C15_Witness ==
  /\ rpc["r1"] = "failing"
  /\ rerr["r1"] = "Model already exists"
  /\ \E e \in appSpec : e.app = "a1" /\ e.ctype = "architecture" /\ e.key = "Order"

\* the alias table of the specification: word -> canonical type
AliasWords == {wString, wInteger, wDatetime, wReference, wAuthentication}
CanonicalOf(word) ==
  CASE word = wString -> "text"
    [] word = wInteger -> "number"
    [] word = wDatetime -> "timestamptz"
    [] word = wReference -> "uuid"
    [] word = wAuthentication -> "jsonb"
CanonicalTypes ==
  {"text", "number", "boolean", "date", "timestamptz", "uuid", "jsonb", "array", "object"}

\* C16: create_model stores, for a field whose type is any letter-casing of an alias,
\* the alias's canonical type; for a canonical type, that type unchanged; and never a
\* type outside the canonical set.
C16_NormalizationCanonical ==
  [][ \A r \in Runners :
        (Executing(r) /\ Payload(r).type = "create_model") =>
          LET given == Payload(r).fields[1].type
              new == appSpec' \ appSpec
          IN /\ \A e \in Entries(appSpec', rapp[r], "architecture") :
                  \A i \in 1..Len(e.value.fields) : e.value.fields[i].type \in CanonicalTypes
             /\ \A word \in AliasWords :
                  (\E cs \in Casings(word) \cap Spellings : Str(cs) = given) =>
                    /\ Succeeded(r)
                    /\ \E e \in new : e.value.fields[1].type = CanonicalOf(word)
             /\ given \in CanonicalTypes =>
                    /\ Succeeded(r)
                    /\ \E e \in new : e.value.fields[1].type = given ]_vars

\* C16 witness: a model whose field was submitted as INTEGER is stored with number.
C16_Witness ==
  /\ \E o \in ops : o.raw[1].type = "create_model" /\ o.raw[1].fields[1].type = "INTEGER"
  /\ \E e \in appSpec : e.ctype = "architecture" /\ e.value.fields[1].type = "number"

\* ---------------------------------------------------------- set_permissions
StoredRules(store, app) ==
  IF \E e \in Entries(store, app, "permissions") : e.key = "rules"
  THEN (CHOOSE e \in Entries(store, app, "permissions") : e.key = "rules").value.rules
  ELSE <<>>
\* the triple a permission stands for: role user when none is given
Triple(p) == <<p.resource, p.action, IF p.role = "" THEN "user" ELSE p.role>>
SpecActions == {"read", "write", "delete", "admin", "create", "update"}
SpecRoles == {"user", "admin", "public", "authenticated"}

\* C17: the permission ruleset of an app never holds two rules for the same
\* (resource, action, role) triple, however often the triple was submitted.
C17_OneRulePerTriple ==
  \A app \in Apps :
    LET rules == StoredRules(appSpec, app) IN
    \A i, j \in 1..Len(rules) : Triple(rules[i]) = Triple(rules[j]) => i = j

\* C18: every stored rule has a resource, an action and a role.
C18_StoredRulesAreTriples ==
  \A app \in Apps :
    LET rules == StoredRules(appSpec, app) IN
    \A i \in 1..Len(rules) :
      rules[i].resource # "" /\ rules[i].action # "" /\ rules[i].role # ""

\* C19: a successful set_permissions step keeps every stored rule whose triple no
\* submitted permission has, replaces in place each rule whose triple is submitted,
\* and appends exactly the submitted permissions whose triple was not stored.
C19_MergeWithoutLoss ==
  [][ \A r \in Runners :
        (Executing(r) /\ Succeeded(r) /\ Payload(r).type = "set_permissions") =>
          LET old == StoredRules(appSpec, rapp[r])
              new == StoredRules(appSpec', rapp[r])
              submitted == resolvePermissions(Payload(r)).list
              Sub == { submitted[k] : k \in 1..Len(submitted) }
          IN /\ Len(new) >= Len(old)
             /\ \A i \in 1..Len(old) :
                  IF \E p \in Sub : Triple(p) = Triple(old[i])
                  THEN new[i] \in Sub /\ Triple(new[i]) = Triple(old[i])
                  ELSE new[i] = old[i]
             /\ \A j \in (Len(old) + 1)..Len(new) :
                  /\ new[j] \in Sub
                  /\ \A i \in 1..Len(old) : Triple(old[i]) # Triple(new[j])
             /\ \A p \in Sub :
                  (\A i \in 1..Len(old) : Triple(old[i]) # Triple(p)) =>
                    \E j \in (Len(old) + 1)..Len(new) : Triple(new[j]) = Triple(p) ]_vars

\* C20: a set_permissions step in which some submitted permission has an action
\* outside the valid actions, or a role given and outside the valid roles, fails
\* and leaves the Specification Store unchanged.
C20_InvalidPermissionStoresNothing ==
  [][ \A r \in Runners :
        ( /\ Executing(r)
          /\ Payload(r).type = "set_permissions"
          /\ resolvePermissions(Payload(r)).given
          /\ LET submitted == resolvePermissions(Payload(r)).list IN
               \E k \in 1..Len(submitted) :
                  \/ submitted[k].action \notin SpecActions
                  \/ submitted[k].role # "" /\ submitted[k].role \notin SpecRoles )
        => (~Succeeded(r) /\ appSpec' = appSpec) ]_vars

\* C20 witness: a step whose first permission is valid and whose second has an
\* invalid role has failed while the app has stored rules.
C20_Witness ==
  /\ rpc["r1"] = "failing"
  /\ rerr["r1"] = "Invalid role"
  /\ StoredRules(appSpec, "a1") # <<>>

\* ------------------------------------------- pages, layouts and components
\* What an entry of the "ui" key space is, by the value its writer stored.
IsPage(e) == e.ctype = "ui" /\ "slug" \in DOMAIN e.value
IsComponent(e) == e.ctype = "ui" /\ "name" \in DOMAIN e.value
\* a layout entry: a row of type layout, or a ui row that is neither of the above
IsLayout(e) == e.ctype = "layout" \/ (e.ctype = "ui" /\ ~IsPage(e) /\ ~IsComponent(e))
LayoutExists(store, app, name) ==
  \E e \in store : e.app = app /\ e.key = name /\ IsLayout(e)

\* C21: a create_page step that names a layout succeeds only if a layout entry
\* of that name exists for the app; when none exists the step fails and the
\* store is left as it was, whatever pages or components have that key.
C21_LayoutMustExist ==
  [][\A r \in Runners :
       (Executing(r) /\ rcur[r].op # 0 /\ Payload(r).type = "create_page"
          /\ Payload(r).layout # "")
       => /\ Succeeded(r) => LayoutExists(appSpec, rapp[r], Payload(r).layout)
          /\ ~LayoutExists(appSpec, rapp[r], Payload(r).layout)
               => ~Succeeded(r) /\ appSpec' = appSpec]_vars

ComponentEntries(store, app, name) ==
  { e \in store : e.app = app /\ e.ctype = "ui" /\ e.key = name /\ IsComponent(e) }
ComponentName(step) == Or(step.name, step.target)
RunsComponentStep(r) ==
  /\ Executing(r)
  /\ rcur[r].op # 0
  /\ Payload(r).type = "create_component"

PageEntries(store, app, slug) ==
  { e \in store : e.app = app /\ e.ctype = "ui" /\ e.key = slug /\ IsPage(e) }

\* C23: a create_component step with pageSlug fails and leaves the store as it
\* was when the page does not exist; when the page exists and the step succeeds,
\* the page's components array afterwards is the previous array with exactly one
\* instance of the component added at its end.
C23_AppendsOneInstance ==
  [][\A r \in Runners :
       (RunsComponentStep(r) /\ ComponentName(Payload(r)) # "" /\ Payload(r).pageSlug # "")
       => LET before == PageEntries(appSpec, rapp[r], Payload(r).pageSlug)
              after == PageEntries(appSpec', rapp[r], Payload(r).pageSlug)
          IN /\ before = {} => ~Succeeded(r) /\ appSpec' = appSpec
             /\ (before # {} /\ Succeeded(r))
                  => /\ after # {}
                     /\ \A b \in before, a \in after :
                          /\ Len(a.value.components) = Len(b.value.components) + 1
                          /\ SubSeq(a.value.components, 1, Len(b.value.components))
                               = b.value.components
                          /\ a.value.components[Len(a.value.components)].name
                               = ComponentName(Payload(r))]_vars

\* C24: executing a step a second time against the store its first successful
\* execution left either fails without changing the store or leaves the store
\* equal to what it was after the first execution.
C24_RetryLeavesStore ==
  [][\A r \in Runners :
       (Executing(r) /\ Succeeded(r))
       => \A later \in Clock :
            executeStep(rcur[r], ops, rapp[r], appSpec', later).store = appSpec']_vars

\* ------------------------------------------------------ the run loop
PendingOf(table, app) == { s \in table : s.app = app /\ s.status = "pending" }
LowestPending(table, app) ==
  { s \in PendingOf(table, app) : \A q \in PendingOf(table, app) : s.idx <= q.idx }
SomeFailed == \E s \in steps : s.status = "failed"
EndsFailed(r) == rpc[r] = "failing" /\ rpc'[r] = "idle"

\* C25: a step failure is local. The request that ends a step failed leaves
\* every other row as it was; and once some step is failed, a request for any
\* app that has pending steps can still start, it selects nothing but a pending
\* step of lowest index of that app, and its claim turns that row to processing.
C25_FailureIsLocal ==
  /\ [](\A r \in Runners, app \in Apps :
          (SomeFailed /\ rpc[r] = "idle" /\ PendingOf(steps, app) # {})
          => /\ ENABLED (RunStepSelect(r, app) /\ rpc'[r] = "selected")
             /\ ~ENABLED (/\ RunStepSelect(r, app)
                          /\ ~(/\ rpc'[r] = "selected"
                               /\ rcur'[r] \in LowestPending(steps, app))))
  /\ [][\A r \in Runners :
          /\ EndsFailed(r) => \A s \in steps : s.id # rcur[r].id => s \in steps'
          /\ (SomeFailed /\ rpc[r] = "selected" /\ rpc'[r] # "selected")
               => /\ rpc'[r] = "claimed"
                  /\ SetStatus(rcur[r], "processing") \in steps']_vars

\* a step of a1 is failed, and afterwards a later step of a1 and a step of
\* a2 have been applied
C25_Witness ==
  /\ \E s, t \in steps : /\ s.app = "a1" /\ t.app = "a1"
                         /\ s.status = "failed" /\ t.status = "applied"
                         /\ s.idx < t.idx
  /\ \E s \in steps : s.app = "a2" /\ s.status = "applied"

ReturnsDone(r, app) == RunStepSelect(r, app) /\ rpc'[r] = "idle"
Returns(r) == rpc[r] # "idle" /\ rpc'[r] = "idle"

C27_ReselectOnLostClaim ==
  [][\A r \in Runners :
       (rpc[r] = "selected" /\ ClaimMatches(steps, rcur[r]) = {} /\ rpc'[r] # "selected")
       => rpc'[r] \notin Claimed \cup {"idle"}]_vars

Selects(r) == rpc[r] = "idle" /\ rpc'[r] = "selected"

\* C28: the step a request selects has the lowest index among the app's pending
\* steps, and among those of that index it is the one created first (rows get
\* their ids in creation order).
C28_LowestIndexEarliestCreated ==
  [][\A r \in Runners :
       Selects(r) => \A q \in PendingOf(steps, rapp'[r]) :
                       \/ rcur'[r].idx < q.idx
                       \/ rcur'[r].idx = q.idx /\ rcur'[r].id <= q.id]_vars

\* the fields a step row itself stores, as a handler payload
OwnFields(step) ==
  [type |-> step.type, name |-> "", slug |-> step.target, target |-> step.target,
   fields |-> <<>>, layout |-> ""]
HandlerGives(r, payload) ==
  \E now \in Clock :
    LET result == executeStepHandler(rapp[r], payload, appSpec, now)
    IN Succeeded(r) = result.success /\ appSpec' = result.store

\* C29: the handler of a claimed step runs on the owning operation's raw
\* descriptor at the step's index when the step has an operation id (and the
\* step fails when there is no such descriptor), and on the step row's own
\* fields when it has none.
C29_PayloadResolution ==
  [][\A r \in Runners :
       Executing(r)
       => IF rcur[r].op = 0 THEN HandlerGives(r, OwnFields(rcur[r]))
          ELSE IF /\ HasRow(ops, rcur[r].op)
                  /\ rcur[r].idx + 1 \in 1..Len(RowOf(ops, rcur[r].op).raw)
            THEN HandlerGives(r, RowOf(ops, rcur[r].op).raw[rcur[r].idx + 1])
            ELSE ~Succeeded(r) /\ appSpec' = appSpec]_vars

\* a model stored from a descriptor's fields, which the step row does not
\* hold, and a page stored from a row without operation
C29_Witness ==
  /\ \E e \in appSpec : e.app = "a1" /\ e.ctype = "architecture" /\ Len(e.value.fields) > 0
  /\ \E s \in steps : /\ s.op = 0 /\ s.status = "applied"
                      /\ SpecExists(appSpec, s.app, "ui", s.target)

\* ------------------------------------------------ snapshot failures
SnapshotFails(w) == wpc[w] = "snapshot" /\ wpc'[w] # "snapshot" /\ versions' = versions
MarksOperation(w) == wpc[w] = "mark" /\ wpc'[w] # "mark"

\* C30: a snapshot that could not be written neither fails nor undoes its
\* operation: the request goes on to mark the operation applied, and the
\* configuration its steps wrote stays as it is.
C30_SnapshotFailureSwallowed ==
  [][\A w \in Workers :
       /\ SnapshotFails(w) => /\ wpc'[w] = "mark"
                              /\ appConfig' = appConfig
                              /\ appOps' = appOps
                              /\ wqueue' = wqueue
       /\ MarksOperation(w) => /\ appConfig' = appConfig
                               /\ RowOf(appOps', Head(wqueue[w]).id).status = "applied"]_vars

\* an applied add_page operation without snapshot whose page is stored
C30_Witness ==
  /\ ProcessorsIdle
  /\ \E o \in appOps :
       /\ o.status = "applied"
       /\ ~\E v \in versions : v.op = o.id
       /\ o.raw[1].type = "add_page"
       /\ ConfigExists(appConfig, o.app, "page", o.raw[1].page.slug)

\* ------------------------------------------------------ independent apps
StepsOfApp(table, app) == { s \in table : s.app = app }
EntriesOfApp(store, app) == { e \in store : e.app = app }
VersionsOfApp(table, app) == { v \in table : v.app = app }
\* a run-step request with a selected row of the app takes a step
RunStepActsFor(app) ==
  \E r \in Runners : rpc[r] # "idle" /\ rapp[r] = app /\ rpc'[r] # rpc[r]
\* an expansion whose current operation is of the app takes a step
ExpandActsFor(app) ==
  \E e \in Expanders : /\ epc[e] \in {"check", "purge", "insert"}
                       /\ Head(equeue[e]).app = app
                       /\ <<epc[e], equeue[e]>> # <<epc'[e], equeue'[e]>>

\* C31: apps are independent: a step of an expansion or of a run-step request
\* (with the handler it runs) for one app leaves the step rows, the stored
\* entries and the snapshots of every other app as they were.
C31_AppsIndependent ==
  [][\A app \in Apps :
       (\/ StepsOfApp(steps', app) # StepsOfApp(steps, app)
        \/ EntriesOfApp(appSpec', app) # EntriesOfApp(appSpec, app)
        \/ VersionsOfApp(versions', app) # VersionsOfApp(versions, app))
       => (RunStepActsFor(app) \/ ExpandActsFor(app))]_vars

\* a1's operation was expanded, its row without operation purged and a step
\* of it applied, while a2's row without operation is still there
C31_Witness ==
  /\ \E s \in steps : s.app = "a2" /\ s.op = 0
  /\ ~\E s \in steps : s.app = "a1" /\ s.op = 0
  /\ \E s \in steps : s.app = "a1" /\ s.op # 0 /\ s.status = "applied"
  /\ EntriesOfApp(appSpec, "a1") # {}

\* ------------------------------------------------------------ reverts
\* C32: after a revert of an app to a version, the app's configuration rows are
\* exactly the rows the snapshot of that version captured: the same types, keys
\* and values, and no other row.
C32_RollbackRestoresSnapshot ==
  [][\A app \in Apps, versionNumber \in 1..MaxAppOps :
       Rollback(app, versionNumber)
       => \A v \in VersionRows(versions, app, versionNumber) :
            { c \in appConfig' : c.app = app } = v.captured]_vars

\* C33: the snapshot log is append-only: no step of the processor or of a
\* revert changes or deletes a snapshot that exists.
C33_SnapshotsAppendOnly ==
  [][\A v \in versions : v \in versions']_vars

\* two snapshots exist and a revert has restored a page from one of them
C33_Witness ==
  /\ Cardinality(versions) >= 2
  /\ \E c \in appConfig : c.ctype = "page" /\ "id" \in DOMAIN c.value

\* ------------------------------------------------------------ submissions
\* C34: a submission is stored as a pending operation only if its intent is a
\* non-empty string and its operations a non-empty array.
C34_StoredOnlyIfNonEmpty ==
  \A o \in ops : o.intent # "" /\ Len(o.raw) > 0

\* ------------------------------------------------------------ the validator
Validates(w) == wpc[w] = "validate" /\ wpc'[w] # "validate"
InvalidIndexes(appId, operations, config) ==
  { i \in 1..Len(operations) : validateOperation(appId, operations[i], config) # <<>> }

\* C35: the validator answers valid exactly when no operation of the batch has
\* an error; otherwise its errors are one per invalid operation, in batch
\* order, each tagged with the operation's 1-based index and its type; and
\* validating changes no configuration row.
C35_ValidatorReport ==
  [][\A w \in Workers :
       Validates(w)
       => LET operation == Head(wqueue[w])
              invalid == InvalidIndexes(operation.app, operation.raw, appConfig)
              after == RowOf(appOps', operation.id)
          IN /\ appConfig' = appConfig
             /\ (wpc'[w] = "apply") = (invalid = {})
             /\ invalid # {}
                  => /\ after.status = "failed"
                     /\ Len(after.err) = Cardinality(invalid)
                     /\ \A k \in 1..Len(after.err) :
                          /\ after.err[k][1] \in invalid
                          /\ after.err[k][2] = operation.raw[after.err[k][1]].type
                          /\ after.err[k][3] =
                               validateOperation(operation.app,
                                                 operation.raw[after.err[k][1]], appConfig)
                          /\ k > 1 => after.err[k - 1][1] < after.err[k][1]]_vars

\* an operation failed with two errors, and another one applied
C35_Witness ==
  /\ \E o \in appOps : o.status = "failed" /\ Len(o.err) = 2
  /\ \E o \in appOps : o.status = "applied"

\* C36: create_component leaves every page of the app in place: a page whose
\* slug is not the step's pageSlug is unchanged (in particular a page whose slug
\* is the component's name), and the page named by pageSlug is still a page
\* with nothing but its components array changed.
C36_ComponentKeepsPages ==
  [][\A r \in Runners :
       RunsComponentStep(r)
       => \A e \in { p \in appSpec : p.app = rapp[r] /\ IsPage(p) } :
            IF e.key # Payload(r).pageSlug THEN e \in appSpec'
            ELSE \E a \in PageEntries(appSpec', rapp[r], e.key) :
                   \A f \in DOMAIN e.value \ {"components"} :
                     f \in DOMAIN a.value /\ a.value[f] = e.value[f]]_vars

\* the effect a successful merging step leaves in the store
EffectPresent(store, app, step) ==
  IF step.type = "set_permissions"
  THEN \A i \in 1..Len(step.permissions.list) :
         \E j \in 1..Len(StoredRules(store, app)) :
           Triple(StoredRules(store, app)[j]) = Triple(step.permissions.list[i])
  ELSE \E e \in PageEntries(store, app, step.pageSlug) :
         \E j \in 1..Len(componentsOf(e.value)) :
           componentsOf(e.value)[j].name = ComponentName(step)

\* C37: no successful handler mutation is lost under concurrency: when the
\* set_permissions and create_component steps of an app that were run by
\* concurrent requests are all reported applied, the stored ruleset holds
\* every submitted triple and the page holds an instance for every component.
C37_NoLostUpdate ==
  \A s \in steps :
    s.status = "applied" => EffectPresent(appSpec, s.app, RowOf(ops, s.op).raw[s.idx + 1])

\* a run-step request hands a raw descriptor to its handler
RunStepExecutes(r, d) == Executing(r) /\ d \in descriptorOf(rcur[r], ops)
\* the bulk runner hands a raw descriptor to its handler
BulkExecutes(d) ==
  /\ bpc = "stepping" /\ bidx' = bidx + 1
  /\ d = <<Head(bqueue).id, bidx>>
  /\ Head(bqueue).raw[bidx + 1].type # ""

\* C38: each raw step descriptor of an Operation is executed against the
\* Specification Store at most once, for every interleaving of bulk-run,
\* expander and run-step requests on the same app: a descriptor that a handler
\* has been run with is never handed to a handler again.
C38_DescriptorExecutedOnce ==
  [][\A d \in executed :
       ~BulkExecutes(d) /\ \A r \in Runners : ~RunStepExecutes(r, d)]_vars

\* the bulk runner ends its turn for the operation at the head of its queue
BulkEnds == bpc \in {"applying", "failing"} /\ bqueue' = Tail(bqueue)
\* one turn of the bulk runner's step loop
BulkTurn == bpc = "stepping" /\ bidx' # bidx
\* the step of this turn has a type and its handler succeeds on the store
TurnSucceeds ==
  LET step == Head(bqueue).raw[bidx + 1] IN
  /\ step.type # ""
  /\ \E now \in Clock :
       /\ executeStepHandler(bapp, step, appSpec, now).success
       /\ appSpec' = executeStepHandler(bapp, step, appSpec, now).store

\* C39: the bulk runner marks an Operation applied if and only if every one of
\* its raw steps has a type and executed successfully; otherwise it marks it
\* failed with the joined per-step errors recorded; either way every step of
\* the Operation was attempted in array order (one error is kept for each step
\* without a type or whose handler failed), and the next pending Operation of
\* the queue is taken up.
C39_BulkAppliedIffAllSucceed ==
  [][/\ BulkTurn =>
        /\ bidx' = bidx + 1
        /\ Len(berrs') = Len(berrs) + (IF TurnSucceeds THEN 0 ELSE 1)
     /\ BulkEnds =>
        LET after == RowOf(ops', Head(bqueue).id) IN
        /\ bidx = Len(Head(bqueue).raw)
        /\ after.status = (IF berrs = <<>> THEN "applied" ELSE "failed")
        /\ after.status = "failed" => after.err = join(berrs, 1)
        /\ Len(bqueue) > 1 => bpc' = "marking"]_vars

====
